---------------------------- MODULE Spec2Model ----------------------------
(***************************************************************************)
(* A model of irods/session.py: the iRODSSession object, its connection,   *)
(* the lazy two-round login and the public operations built on _send and   *)
(* _recv.  Every method is a frame on a call stack; one step of a frame is *)
(* one action, so a send and the receive that follows it are two steps.    *)
(* The server is the environment: every response is chosen when it is      *)
(* received.  Spec lets the server answer anything; SpecServer gives it a   *)
(* catalog and a descriptor table; SpecLogin varies password and nonce;     *)
(* SpecThreads lets two threads share the session.                          *)
(***************************************************************************)
EXTENDS Integers, Sequences, FiniteSets, TLC

VARIABLES
    socket,          \* self.socket: "None", "open" or "closed"
    authenticated,   \* self.authenticated
    stack,           \* the call stack of the calling thread, top first
    pending,         \* requests on the connection whose response is not yet read
    wire,            \* envelopes sent during the current top-level call
    resps,           \* envelopes received during the current top-level call
    result,          \* how the last top-level call ended
    cur,             \* the current (or last) top-level call
    phase,           \* "new", "configured" or "deleted" (after __del__)
    calls,           \* number of top-level operations called so far
    hist,            \* history of the session's lifetime (counters and flags)
    password,        \* self.password, a sequence of bytes
    srv,             \* the server: what it keeps of files, objects, collections
    thr,             \* the calling threads: which one runs, which one waits
    scenario         \* the inputs of this run: "session", "server", "login", "threads"

vars == <<socket, authenticated, stack, pending, wire, resps, result, cur,
          phase, calls, hist, password, srv, thr, scenario>>

---------------------------------------------------------------------------
(* Bounds of the model *)

MaxCalls == 3        \* top-level operations called on one session
MaxRows == 2         \* rows in a query response

---------------------------------------------------------------------------
(* Inputs *)

\* A path is the sequence of its components: <<"z", "f">> is /z/f, <<>> is /.
Paths == {<<"z">>, <<"z", "f">>}

\* Faulty variant of dirname: the path itself is taken for its parent.
dirname_whole(path) == path

dirname(path) == IF path = <<>> THEN <<>> ELSE SubSeq(path, 1, Len(path) - 1)

basename(path) == IF path = <<>> THEN "" ELSE path[Len(path)]

\* Descriptors a caller may pass, and the ones the server may hand out.
DescArgs == {3}
ServerDescs == {3, 4}
Sizes == {0, 2}
Strings == {<<"a", "b">>}
Offsets == {5, 10}
Whences == {0, 1, 2}
OpenModes == {0}

ModelClasses == {"DataObject", "Collection", "Resource", "User"}

\* The status codes the server may answer with.  A negative one is an error.
CAT_NO_ROWS_FOUND_CODE == -808000
USER_FILE_DOES_NOT_EXIST_CODE == -310000
ErrCodes == {CAT_NO_ROWS_FOUND_CODE, USER_FILE_DOES_NOT_EXIST_CODE}

get_exception_by_code(code) ==
    IF code = CAT_NO_ROWS_FOUND_CODE THEN "CAT_NO_ROWS_FOUND"
    ELSE IF code = USER_FILE_DOES_NOT_EXIST_CODE THEN "USER_FILE_DOES_NOT_EXIST"
    ELSE "UnknownRemoteError"


---------------------------------------------------------------------------
(* Values, envelopes and frames *)

None == [tag |-> "None"]

IntVal(n) == [tag |-> "int", n |-> n]

BytesVal(bs) == [tag |-> "bytes", bs |-> bs]

\* ResultSet(results): the rows of a GenQueryOut, indexable by its columns.
ResultSet(results) == [tag |-> "ResultSet", cols |-> results.cols, rows |-> results.rows]

\* empty_gen_query_out(cols): a GenQueryOut with the given columns and no row.
empty_gen_query_out(cols) == [cols |-> cols, rows |-> <<>>]

iRODSCollection(row) == [tag |-> "iRODSCollection", row |-> row]

iRODSDataObject(parent, row) == [tag |-> "iRODSDataObject", parent |-> parent, row |-> row]

iRODSMetaList(rows) ==
    [tag |-> "list", items |-> [i \in 1..Len(rows) |-> [id |-> rows[i].id]]]

\* iRODSMessage(type, msg, int_info, bs).  int_info is written as in the
\* source: a numeral for a literal code, the key for an api_number entry.
iRODSMessage(type, int_info, msg, bs) ==
    [type |-> type, int_info |-> int_info, msg |-> msg, bs |-> bs]

NoBody == [pi |-> "None"]

\* Query(session, *args).filter(*conds): requested columns and conditions.
Query(cols, conds) == [cols |-> cols, conds |-> conds]

Frame(fn, pc, arg) == [fn |-> fn, pc |-> pc, arg |-> arg, loc |-> None, ret |-> None]

Top == stack[1]

SetPc(pc) == [stack EXCEPT ![1].pc = pc]

\* The tables a query response may carry: at most MaxRows distinct rows.
RowIds == 1..MaxRows

RECURSIVE SortedRows(_)
SortedRows(ids) ==
    IF ids = {} THEN <<>>
    ELSE LET m == CHOOSE x \in ids : \A y \in ids : x <= y
         IN  <<[id |-> m]>> \o SortedRows(ids \ {m})

RowTables == {SortedRows(ids) : ids \in SUBSET RowIds}

ReadPayloads == {<<>>, <<"a", "b">>}

\* A received envelope: status, error flag, body fields and raw payload;
\* re names the request the server answers with it.
Response(int_info, error, cols, rows, offset, bs) ==
    [int_info |-> int_info, error |-> error, cols |-> cols, rows |-> rows,
     offset |-> offset, bs |-> bs, challenge |-> <<>>, re |-> "None"]

\* A failure carries a negative status and a server-defined error body.
Failure(code) == Response(code, TRUE, "error", <<[id |-> 0]>>, -1, <<"e">>)

Plain(int_info) == Response(int_info, FALSE, "None", <<>>, 0, <<>>)

\* The nonces the server may issue as a challenge.
Nonces == IF scenario = "login" THEN {<<>>, <<0>>, <<3, 1>>} ELSE {<<7>>}

\* The answer to an auth request: a challenge.
Challenge(nonce) == [Plain(0) EXCEPT !.challenge = nonce]

\* What the server may answer to a request.
Replies(req) ==
    {Failure(c) : c \in ErrCodes} \cup
    (CASE req.int_info = "703" -> {Challenge(n) : n \in Nonces}
       [] req.int_info = "704" ->
            {Response(0, e, "None", <<>>, 0, <<>>) : e \in BOOLEAN}
       [] req.int_info = "702" ->
            {Response(0, FALSE, req.msg.cols, t, 0, <<>>) : t \in RowTables}
       [] req.int_info \in {"DATA_OBJ_CREATE_AN", "DATA_OBJ_OPEN_AN"} ->
            {Plain(d) : d \in ServerDescs}
       [] req.int_info = "DATA_OBJ_READ201_AN" ->
            {Response(Len(b), FALSE, "None", <<>>, 0, b) : b \in ReadPayloads}
       [] req.int_info = "DATA_OBJ_WRITE201_AN" ->
            {Plain(n) : n \in 0..req.msg.len}
       [] req.int_info = "DATA_OBJ_LSEEK201_AN" ->
            {Response(0, FALSE, "None", <<>>, o, <<>>) : o \in {0, req.msg.offset}}
       [] OTHER -> {Plain(0)})

\* The server's state.  A server that keeps its catalog and its descriptor
\* table (conforming) remembers: the data objects it unlinked (gone), the
\* collection it reported under each id (coll), the bytes of each data object
\* (data) and, for each descriptor, whether it is open, on which object it
\* is or was last open and at which position (fds).  A server that may answer anything keeps nothing.
FileData == <<"a", "b", "c">>

UnknownPath == <<"?">>

Closed == [open |-> FALSE, path |-> <<>>, pos |-> 0]

AnyServer ==
    [conforming |-> FALSE, gone |-> {}, coll |-> [i \in RowIds |-> UnknownPath],
     data |-> [p \in Paths |-> FileData], fds |-> [d \in ServerDescs |-> Closed]]

CatalogServer == [AnyServer EXCEPT !.conforming = TRUE]

\* The descriptor a request names.
DescOf(req) ==
    CASE req.int_info = "DATA_OBJ_WRITE201_AN" -> req.msg.dataObjInx
      [] req.int_info = "DATA_OBJ_LSEEK201_AN" -> req.msg.fileInx
      [] OTHER -> req.msg.l1descInx

IsOpen(d) == d \in ServerDescs /\ srv.fds[d].open

\* The data object a query by name and collection id asks for.
QueryTarget(req) ==
    LET conds == req.msg.conds
    IN  IF req.msg.cols = "DataObject" /\ Len(conds) = 2
        THEN srv.coll[conds[2].val] \o <<conds[1].val>>
        ELSE UnknownPath

\* lseek: the position a seek request asks for.
SeekTo(fd, msg) ==
    CASE msg.whence = 0 -> msg.offset
      [] msg.whence = 1 -> fd.pos + msg.offset
      [] OTHER -> Len(srv.data[fd.path]) + msg.offset

\* The bytes of a data object after bs was written at position pos.
Overwrite(data, pos, bs) ==
    LET n == IF Len(data) > pos + Len(bs) THEN Len(data) ELSE pos + Len(bs)
    IN  [i \in 1..n |-> IF i > pos /\ i <= pos + Len(bs) THEN bs[i - pos]
                        ELSE IF i <= Len(data) THEN data[i] ELSE "0"]

\* The successful answers of a conforming server.
Honest(req) ==
    CASE req.int_info = "703" -> {Challenge(n) : n \in Nonces}
      [] req.int_info = "704" ->
            {Response(0, e, "None", <<>>, 0, <<>>) : e \in BOOLEAN}
      [] req.int_info = "702" ->
            {Response(0, FALSE, req.msg.cols, t, 0, <<>>) :
                t \in IF QueryTarget(req) \in srv.gone THEN {<<>>} ELSE RowTables}
      [] req.int_info = "DATA_OBJ_CREATE_AN" ->
            {Plain(d) : d \in {x \in ServerDescs : ~srv.fds[x].open}}
      [] req.int_info = "DATA_OBJ_OPEN_AN" ->
            IF req.msg.objPath \in srv.gone THEN {}
            ELSE {Plain(d) : d \in {x \in ServerDescs : ~srv.fds[x].open}}
      [] req.int_info = "DATA_OBJ_READ201_AN" ->
            IF ~IsOpen(DescOf(req)) THEN {}
            ELSE LET fd == srv.fds[DescOf(req)]
                     end == IF fd.pos + req.msg.len < Len(srv.data[fd.path])
                            THEN fd.pos + req.msg.len ELSE Len(srv.data[fd.path])
                     b == SubSeq(srv.data[fd.path], fd.pos + 1, end)
                 IN  {Response(Len(b), FALSE, "None", <<>>, 0, b)}
      [] req.int_info = "DATA_OBJ_WRITE201_AN" ->
            IF ~IsOpen(DescOf(req)) THEN {}
            ELSE {Plain(n) : n \in 0..req.msg.len}
      [] req.int_info = "DATA_OBJ_LSEEK201_AN" ->
            IF ~IsOpen(DescOf(req)) THEN {}
            ELSE {Response(0, FALSE, "None", <<>>,
                           SeekTo(srv.fds[DescOf(req)], req.msg), <<>>)}
      [] req.int_info = "DATA_OBJ_CLOSE201_AN" ->
            IF ~IsOpen(DescOf(req)) THEN {} ELSE {Plain(0)}
      [] req.int_info = "DATA_OBJ_UNLINK_AN" ->
            IF req.msg.objPath \in srv.gone THEN {} ELSE {Plain(0)}
      [] OTHER -> {Plain(0)}

ServerResponses(req) ==
    {[r EXCEPT !.re = req.int_info] :
        r \in IF srv.conforming
               THEN {Failure(c) : c \in ErrCodes} \cup Honest(req)
               ELSE Replies(req)}

\* The server's state after it answered req with r.
ServerStep(req, r) ==
    IF ~srv.conforming \/ r.int_info < 0 THEN srv
    ELSE CASE req.int_info = "702" ->
                IF req.msg.cols = "Collection" /\ Len(req.msg.conds) = 1
                THEN [srv EXCEPT !.coll =
                        [i \in RowIds |->
                            IF \E k \in 1..Len(r.rows) : r.rows[k].id = i
                            THEN req.msg.conds[1].val ELSE @[i]]]
                ELSE srv
           [] req.int_info = "DATA_OBJ_CREATE_AN" ->
                [srv EXCEPT !.fds[r.int_info] =
                                [open |-> TRUE, path |-> req.msg.objPath, pos |-> 0],
                            !.data[req.msg.objPath] = <<>>,
                            !.gone = @ \ {req.msg.objPath}]
           [] req.int_info = "DATA_OBJ_OPEN_AN" ->
                [srv EXCEPT !.fds[r.int_info] =
                                [open |-> TRUE, path |-> req.msg.objPath, pos |-> 0]]
           [] req.int_info = "DATA_OBJ_READ201_AN" ->
                [srv EXCEPT !.fds[DescOf(req)].pos = @ + Len(r.bs)]
           [] req.int_info = "DATA_OBJ_WRITE201_AN" ->
                LET fd == srv.fds[DescOf(req)]
                IN  [srv EXCEPT !.fds[DescOf(req)].pos = @ + r.int_info,
                                !.data[fd.path] =
                                    Overwrite(@, fd.pos, SubSeq(req.bs, 1, r.int_info))]
           [] req.int_info = "DATA_OBJ_LSEEK201_AN" ->
                [srv EXCEPT !.fds[DescOf(req)].pos = r.offset]
           [] req.int_info = "DATA_OBJ_CLOSE201_AN" ->
                [srv EXCEPT !.fds[DescOf(req)].open = FALSE, !.fds[DescOf(req)].pos = 0]
           [] req.int_info = "DATA_OBJ_UNLINK_AN" ->
                [srv EXCEPT !.gone = @ \cup {req.msg.objPath}]
           [] OTHER -> srv

\* The calling threads: tid runs and its stack, call and envelopes are the
\* ones of the state; parked holds those of a thread that waits; owners names
\* the sender of each pending request; crossed tells that a thread has read
\* the response to a request of the other; mutex tells that the callers
\* serialize their use of the session with a lock.
OneThread ==
    [tid |-> 1, owners |-> <<>>, crossed |-> FALSE, parked |-> <<>>, mutex |-> FALSE]

\* A thread that has not called the session yet.
IdleThread(tid) ==
    [tid |-> tid, stack |-> <<>>,
     cur |-> [fn |-> "__init__", arg |-> [none |-> TRUE]],
     result |-> [outcome |-> "returned", exc |-> "None", val |-> [tag |-> "None"]],
     wire |-> <<>>, resps |-> <<>>]

TwoThreads(mutex) == [OneThread EXCEPT !.parked = <<IdleThread(2)>>, !.mutex = mutex]

\* The length of the password buffer.
MAX_PASSWORD_LENGTH == 50

\* A password of n bytes.
PasswordOfLen(n) == [i \in 1..n |-> 1 + (i % 3)]

\* The passwords a session may be configured with: shorter than the buffer,
\* as long as the buffer, longer than the buffer.
Passwords ==
    IF scenario = "login"
    THEN {PasswordOfLen(2), PasswordOfLen(MAX_PASSWORD_LENGTH),
          PasswordOfLen(MAX_PASSWORD_LENGTH + 1)}
    ELSE {<<1, 2>>}

---------------------------------------------------------------------------
(* The calls a caller may make *)

Privileged ==
    {"get_collection", "get_data_object", "create_data_object", "open_file",
     "read_file", "write_file", "seek_file", "close_file", "unlink_data_object",
     "execute_query", "get_meta", "add_meta", "remove_meta", "copy_meta"}

MetaPath == <<"z", "f">>

Metas == {[name |-> "k", value |-> "v", units |-> "u"]}

Queries ==
    {Query("Collection", <<[col |-> "Collection.name", val |-> <<"z">>]>>),
     Query("Resource", <<>>)}

PublicCalls ==
    {[fn |-> f, arg |-> [path |-> p]] :
        f \in {"get_collection", "get_data_object", "create_data_object",
               "unlink_data_object"}, p \in Paths}
    \cup {[fn |-> "open_file", arg |-> [path |-> p, mode |-> m]] :
            p \in Paths, m \in OpenModes}
    \cup {[fn |-> "read_file", arg |-> [desc |-> d, size |-> n]] :
            d \in DescArgs, n \in Sizes}
    \cup {[fn |-> "write_file", arg |-> [desc |-> d, string |-> s]] :
            d \in DescArgs, s \in Strings}
    \cup {[fn |-> "seek_file", arg |-> [desc |-> d, offset |-> o, whence |-> w]] :
            d \in DescArgs, o \in Offsets, w \in Whences}
    \cup {[fn |-> "close_file", arg |-> [desc |-> d]] : d \in DescArgs}
    \cup {[fn |-> "execute_query", arg |-> [query |-> q]] : q \in Queries}
    \cup {[fn |-> "get_meta", arg |-> [model_cls |-> c, path |-> MetaPath]] :
            c \in ModelClasses}
    \cup {[fn |-> f, arg |-> [model_cls |-> c, path |-> MetaPath, meta |-> m]] :
            f \in {"add_meta", "remove_meta"}, c \in ModelClasses, m \in Metas}
    \cup {[fn |-> "copy_meta",
           arg |-> [src_model_cls |-> c, dest_model_cls |-> d,
                    src |-> MetaPath, dest |-> <<"z">>]] :
            c \in ModelClasses, d \in {"DataObject", "User"}}
    \cup {[fn |-> "disconnect", arg |-> [none |-> TRUE]]}

\* The calls on data objects and descriptors.
DataCalls ==
    {c \in PublicCalls :
        c.fn \in {"get_data_object", "create_data_object", "unlink_data_object",
                  "open_file", "read_file", "write_file", "seek_file", "close_file"}}

\* The calls of a run that is about the login.
LoginCalls == {c \in PublicCalls : c.fn = "open_file"}

\* The call each of two threads makes.
ThreadCalls == {c \in LoginCalls : c.arg.path = <<"z", "f">>}

\* The calls made in a run.
Menu ==
    CASE scenario = "server" -> DataCalls
      [] scenario = "login" -> LoginCalls
      [] scenario = "threads" -> ThreadCalls
      [] OTHER -> PublicCalls

---------------------------------------------------------------------------
(* Control flow shared by the methods *)

Same == UNCHANGED <<socket, authenticated, phase, calls, cur, password, scenario>>

NoIO == UNCHANGED <<pending, wire, resps, srv, thr>>

\* A top-level call has ended: count it when it was a privileged operation on
\* a connected session.
Done(h) ==
    IF cur.fn \in Privileged /\ socket = "open" THEN [h EXCEPT !.privDone = @ + 1] ELSE h

\* An exception nothing catches: every frame is left.
Unwind(exc, h) ==
    /\ stack' = <<>>
    /\ result' = [outcome |-> "raised", exc |-> exc, val |-> None]
    /\ hist' = Done(h)

\* return val: to the calling frame, or to the caller of the session.
ReturnVal(val, h) ==
    IF Len(stack) = 1
    THEN /\ stack' = <<>>
         /\ result' = [outcome |-> "returned", exc |-> "None", val |-> val]
         /\ hist' = Done(h)
    ELSE /\ stack' = [Tail(stack) EXCEPT ![1].ret = val]
         /\ result' = result
         /\ hist' = h

Goto(pc) ==
    /\ stack' = SetPc(pc)
    /\ UNCHANGED <<result, hist>>

\* Call a method from the top frame, which continues at pc when it returns.
CallFn(frame, pc) ==
    /\ stack' = <<frame>> \o SetPc(pc)
    /\ UNCHANGED <<result, hist>>

\* Faulty variant of NeedsLogin: every call logs in.
NeedsLogin_always == TRUE

\* if not self.authenticated
NeedsLogin == ~authenticated

\* if not self.authenticated: self._login()
EnsureAuth(pc) ==
    /\ IF NeedsLogin
       THEN CallFn(Frame("_login", "send", [none |-> TRUE]), pc)
       ELSE Goto(pc)
    /\ NoIO
    /\ Same

Sent(h, message) ==
    [h EXCEPT !.everSent = TRUE,
              !.n703 = IF message.int_info = "703" THEN @ + 1 ELSE @,
              !.n704 = IF message.int_info = "704" THEN @ + 1 ELSE @]

\* self._send(message): socket.sendall fails without a connected socket.
_send(message, pc) ==
    /\ IF socket = "open"
       THEN /\ wire' = Append(wire, [msg |-> message, authenticated |-> authenticated])
            /\ pending' = IF message.type = "RODS_DISCONNECT"
                          THEN pending ELSE Append(pending, message)
            /\ thr' = IF message.type = "RODS_DISCONNECT"
                      THEN thr ELSE [thr EXCEPT !.owners = Append(@, thr.tid)]
            /\ stack' = SetPc(pc)
            /\ hist' = Sent(hist, message)
            /\ UNCHANGED result
       ELSE /\ Unwind(IF socket = "None" THEN "AttributeError" ELSE "socket.error", hist)
            /\ UNCHANGED <<wire, pending, thr>>
    /\ UNCHANGED <<resps, srv>>
    /\ Same

\* Faulty variant of RecvRaises: the status is never checked.
RecvRaises_unchecked(msg) == FALSE

\* if msg.int_info < 0
RecvRaises(msg) == msg.int_info < 0

\* The envelopes the next receive may read: the server answers the oldest
\* unanswered request; with none, the receive blocks.
Answers == IF pending = <<>> THEN {} ELSE ServerResponses(Head(pending))

\* iRODSMessage.recv(self.socket)
RecvIO(msg) ==
    /\ pending' = Tail(pending)
    /\ resps' = Append(resps, msg)
    /\ wire' = wire
    /\ srv' = ServerStep(Head(pending), msg)
    /\ thr' = [thr EXCEPT !.owners = Tail(@),
                          !.crossed = @ \/ Head(thr.owners) # thr.tid]

\* Faulty variant of SendRecv: the method returns without reading its response.
SendRecv_unread(message) ==
    \/ /\ Top.pc = "send"
       /\ _send(message, "recv")
    \/ /\ Top.pc = "recv"
       /\ ReturnVal(None, hist)
       /\ NoIO
       /\ Same

\* A method that sends one request and returns nothing of its response.
\* self._send(message); response = self._recv()
SendRecv(message) ==
    \/ /\ Top.pc = "send"
       /\ _send(message, "recv")
    \/ /\ Top.pc = "recv"
       /\ \E msg \in Answers :
            /\ RecvIO(msg)
            /\ IF RecvRaises(msg)
               THEN Unwind(get_exception_by_code(msg.int_info), hist)
               ELSE ReturnVal(None, hist)
       /\ Same

---------------------------------------------------------------------------
(* Connection and login *)

StartupPack == [pi |-> "StartupPack", user |-> "user", zone |-> "zone"]

\* _connect, called by configure: open the socket, announce, read the version.
_connect ==
    /\ stack # <<>> /\ Top.fn = "_connect"
    /\ \/ /\ Top.pc = "connect"
          /\ \E ok \in BOOLEAN :
               IF ok
               THEN /\ socket' = "open"
                    /\ stack' = SetPc("send")
                    /\ hist' = [hist EXCEPT !.connectAttempts = @ + 1]
                    /\ UNCHANGED result
               ELSE /\ socket' = socket
                    /\ Unwind("Could not connect to specified host and port",
                              [hist EXCEPT !.connectAttempts = @ + 1])
          /\ NoIO
          /\ UNCHANGED <<authenticated, phase, calls, cur, password, scenario>>
       \/ SendRecv(iRODSMessage("RODS_CONNECT", "0", StartupPack, <<>>))

\* Faulty variant of disconnect: closing the socket also clears the flag.
disconnect_resets ==
    /\ stack # <<>> /\ Top.fn = "disconnect"
    /\ \/ /\ Top.pc = "send"
          /\ _send(iRODSMessage("RODS_DISCONNECT", "0", NoBody, <<>>), "close")
       \/ /\ Top.pc = "close"
          /\ socket' = "closed"
          /\ authenticated' = FALSE
          /\ ReturnVal(None, hist)
          /\ NoIO
          /\ UNCHANGED <<phase, calls, cur, password, scenario>>

\* disconnect: send the notice, then close the socket.
disconnect ==
    /\ stack # <<>> /\ Top.fn = "disconnect"
    /\ \/ /\ Top.pc = "send"
          /\ _send(iRODSMessage("RODS_DISCONNECT", "0", NoBody, <<>>), "close")
       \/ /\ Top.pc = "close"
          /\ socket' = "closed"
          /\ ReturnVal(None, hist)
          /\ NoIO
          /\ UNCHANGED <<authenticated, phase, calls, cur, password, scenario>>

\* Faulty variant of del_guard: disconnect is called whatever the socket is.
del_guard_always == TRUE

\* if self.socket
del_guard == socket # "None"

\* __del__: disconnect when the session holds a socket.
__del__ ==
    /\ stack # <<>> /\ Top.fn = "__del__"
    /\ \/ /\ Top.pc = "check"
          /\ IF del_guard
             THEN CallFn(Frame("disconnect", "send", [none |-> TRUE]), "ret")
             ELSE ReturnVal(None, hist)
       \/ /\ Top.pc = "ret"
          /\ ReturnVal(None, hist)
    /\ NoIO
    /\ Same

authResponseInp(response, username) ==
    [pi |-> "authResponseInp", response |-> response, username |-> username]

\* Faulty variant of struct_pack_s: the string is packed as it is.
struct_pack_s_asis(n, string) == string

\* struct.pack("%ds" % n, string): exactly n bytes, the string cut to n bytes
\* or filled up with zero bytes.
struct_pack_s(n, string) == [i \in 1..n |-> IF i <= Len(string) THEN string[i] ELSE 0]

RECURSIVE WeightedSum(_, _, _)
WeightedSum(data, i, j) ==
    IF j > Len(data) THEN 0 ELSE data[j] * (i + j) + WeightedSum(data, i, j + 1)

\* hashlib.md5(data).digest(): 16 bytes that depend on every byte of data and
\* on its length.  The bytes are kept small, so that zero bytes are common.
md5_digest(data) == [i \in 1..16 |-> (Len(data) * i + WeightedSum(data, i, 1)) % 5]

\* bs.replace(old, new), for single bytes
replace(bs, old, new) == [i \in 1..Len(bs) |-> IF bs[i] = old THEN new ELSE bs[i]]

\* The digest sent for a challenge.
encoded_pwd(challenge) ==
    replace(md5_digest(challenge \o struct_pack_s(MAX_PASSWORD_LENGTH, password)), 0, 1)

LoginFailed(h) == [h EXCEPT !.loginFailed = TRUE]

\* Faulty variant of auth_error: the error flag of the final reply is ignored.
auth_error_ignored(auth_response) == FALSE

\* if auth_response.error
auth_error(auth_response) == auth_response.error

\* _login: auth request, challenge, response, final reply.
_login ==
    /\ stack # <<>> /\ Top.fn = "_login"
    /\ \/ /\ Top.pc = "send"
          /\ _send(iRODSMessage("RODS_API_REQ", "703", NoBody, <<>>), "challenge")
       \/ /\ Top.pc = "challenge"
          /\ \E msg \in Answers :
               /\ RecvIO(msg)
               /\ IF RecvRaises(msg)
                  THEN Unwind(get_exception_by_code(msg.int_info), LoginFailed(hist))
                  ELSE /\ stack' = [stack EXCEPT ![1].pc = "respond",
                                                 ![1].loc = BytesVal(msg.challenge)]
                       /\ UNCHANGED <<result, hist>>
          /\ Same
       \/ /\ Top.pc = "respond"
          /\ _send(iRODSMessage("RODS_API_REQ", "704",
                       authResponseInp(encoded_pwd(Top.loc.bs), "user"), <<>>),
                   "final")
       \/ /\ Top.pc = "final"
          /\ \E msg \in Answers :
               /\ RecvIO(msg)
               /\ IF RecvRaises(msg)
                  THEN /\ Unwind(get_exception_by_code(msg.int_info), LoginFailed(hist))
                       /\ authenticated' = authenticated
                  ELSE IF auth_error(msg)
                  THEN /\ Unwind("Unsuccessful login attempt", LoginFailed(hist))
                       /\ authenticated' = authenticated
                  ELSE /\ authenticated' = TRUE
                       /\ ReturnVal(None, hist)
          /\ UNCHANGED <<socket, phase, calls, cur, password, scenario>>

---------------------------------------------------------------------------
(* Queries *)

GenQueryInp(query) == [pi |-> "GenQueryInp", cols |-> query.cols, conds |-> query.conds]

\* Faulty variant of Swallowed: every remote error is caught.
Swallowed_any(exc) == TRUE

\* except CAT_NO_ROWS_FOUND
Swallowed(exc) == exc = "CAT_NO_ROWS_FOUND"

\* execute_query: one 702 request; "no rows found" becomes an empty ResultSet.
execute_query ==
    /\ stack # <<>> /\ Top.fn = "execute_query"
    /\ \/ /\ Top.pc = "auth"
          /\ EnsureAuth("send")
       \/ /\ Top.pc = "send"
          /\ _send(iRODSMessage("RODS_API_REQ", "702", GenQueryInp(Top.arg.query), <<>>),
                   "recv")
       \/ /\ Top.pc = "recv"
          /\ \E msg \in Answers :
               /\ RecvIO(msg)
               /\ IF RecvRaises(msg)
                  THEN IF Swallowed(get_exception_by_code(msg.int_info))
                       THEN ReturnVal(ResultSet(empty_gen_query_out(Top.arg.query.cols)),
                                      hist)
                       ELSE Unwind(get_exception_by_code(msg.int_info), hist)
                  ELSE ReturnVal(ResultSet(msg), hist)
          /\ Same

\* Query.all(): run the query through the session.
Query_all(query) == Frame("execute_query", "auth", [query |-> query])

\* Faulty variant of OneMatch: the first of several rows is accepted.
OneMatch_first(results) == Len(results.rows) >= 1

\* if results.length == 1
OneMatch(results) == Len(results.rows) = 1

\* get_collection: the collection whose name is path, which must be unique.
get_collection ==
    /\ stack # <<>> /\ Top.fn = "get_collection"
    /\ \/ /\ Top.pc = "auth"
          /\ EnsureAuth("query")
       \/ /\ Top.pc = "query"
          /\ CallFn(Frame("execute_query", "auth",
                          [query |-> Query("Collection",
                              <<[col |-> "Collection.name", val |-> Top.arg.path]>>)]),
                    "check")
          /\ NoIO
          /\ Same
       \/ /\ Top.pc = "check"
          /\ IF OneMatch(Top.ret)
             THEN ReturnVal(iRODSCollection(Top.ret.rows[1]), hist)
             ELSE Unwind("CollectionDoesNotExist", hist)
          /\ NoIO
          /\ Same

\* get_data_object: resolve the parent, then the object by name and parent id.
get_data_object ==
    /\ stack # <<>> /\ Top.fn = "get_data_object"
    /\ \/ /\ Top.pc = "auth"
          /\ EnsureAuth("parent")
       \/ /\ Top.pc = "parent"
          /\ CallFn(Frame("get_collection", "auth", [path |-> dirname(Top.arg.path)]),
                    "query")
          /\ NoIO
          /\ Same
       \/ /\ Top.pc = "query"
          /\ stack' = <<Query_all(Query("DataObject",
                          <<[col |-> "DataObject.name", val |-> basename(Top.arg.path)],
                            [col |-> "DataObject.collection_id",
                             val |-> Top.ret.row.id]>>))>>
                      \o [stack EXCEPT ![1].pc = "check", ![1].loc = Top.ret]
          /\ UNCHANGED <<result, hist>>
          /\ NoIO
          /\ Same
       \/ /\ Top.pc = "check"
          /\ IF OneMatch(Top.ret)
             THEN ReturnVal(iRODSDataObject(Top.loc, Top.ret.rows[1]), hist)
             ELSE Unwind("DataObjectDoesNotExist", hist)
          /\ NoIO
          /\ Same

---------------------------------------------------------------------------
(* Data objects and descriptors *)

DataObjInp(objPath, createMode, openFlags, kvp) ==
    [pi |-> "DataObjInp", objPath |-> objPath, createMode |-> createMode,
     openFlags |-> openFlags, offset |-> 0, dataSize |-> -1, numThreads |-> 0,
     oprType |-> 0, KeyValPair_PI |-> kvp]

\* Faulty variant of create_desc: the descriptor is read from the wrong field.
create_desc_offset(response) == response.offset

\* desc = response.int_info
create_desc(response) == response.int_info

\* create_data_object: create, close the descriptor, fetch the object.
create_data_object ==
    /\ stack # <<>> /\ Top.fn = "create_data_object"
    /\ \/ /\ Top.pc = "auth"
          /\ EnsureAuth("send")
       \/ /\ Top.pc = "send"
          /\ _send(iRODSMessage("RODS_API_REQ", "DATA_OBJ_CREATE_AN",
                       DataObjInp(Top.arg.path, 420, 0, "dataType=generic"), <<>>),
                   "recv")
       \/ /\ Top.pc = "recv"
          /\ \E msg \in Answers :
               /\ RecvIO(msg)
               /\ IF RecvRaises(msg)
                  THEN Unwind(get_exception_by_code(msg.int_info), hist)
                  ELSE CallFn(Frame("close_file", "auth", [desc |-> create_desc(msg)]),
                              "get")
          /\ Same
       \/ /\ Top.pc = "get"
          /\ CallFn(Frame("get_data_object", "auth", [path |-> Top.arg.path]), "ret")
          /\ NoIO
          /\ Same
       \/ /\ Top.pc = "ret"
          /\ ReturnVal(Top.ret, hist)
          /\ NoIO
          /\ Same

\* open_file: one open request; the descriptor is the response's status.
open_file ==
    /\ stack # <<>> /\ Top.fn = "open_file"
    /\ \/ /\ Top.pc = "auth"
          /\ EnsureAuth("send")
       \/ /\ Top.pc = "send"
          /\ _send(iRODSMessage("RODS_API_REQ", "DATA_OBJ_OPEN_AN",
                       DataObjInp(Top.arg.path, 0, Top.arg.mode, ""), <<>>),
                   "recv")
       \/ /\ Top.pc = "recv"
          /\ \E msg \in Answers :
               /\ RecvIO(msg)
               /\ IF RecvRaises(msg)
                  THEN Unwind(get_exception_by_code(msg.int_info), hist)
                  ELSE ReturnVal(IntVal(msg.int_info), hist)
          /\ Same

\* read_file: one read request; the result is the response's raw payload.
read_file ==
    /\ stack # <<>> /\ Top.fn = "read_file"
    /\ \/ /\ Top.pc = "auth"
          /\ EnsureAuth("send")
       \/ /\ Top.pc = "send"
          /\ _send(iRODSMessage("RODS_API_REQ", "DATA_OBJ_READ201_AN",
                       [pi |-> "dataObjReadInp", l1descInx |-> Top.arg.desc,
                        len |-> Top.arg.size], <<>>),
                   "recv")
       \/ /\ Top.pc = "recv"
          /\ \E msg \in Answers :
               /\ RecvIO(msg)
               /\ IF RecvRaises(msg)
                  THEN Unwind(get_exception_by_code(msg.int_info), hist)
                  ELSE ReturnVal(BytesVal(msg.bs), hist)
          /\ Same

\* Faulty variant of write_result: the length of the string is returned.
write_result_len(response) == IntVal(Len(Top.arg.string))

\* return response.int_info
write_result(response) == IntVal(response.int_info)

\* write_file: one write request carrying the string; the result is the status.
write_file ==
    /\ stack # <<>> /\ Top.fn = "write_file"
    /\ \/ /\ Top.pc = "auth"
          /\ EnsureAuth("send")
       \/ /\ Top.pc = "send"
          /\ _send(iRODSMessage("RODS_API_REQ", "DATA_OBJ_WRITE201_AN",
                       [pi |-> "dataObjWriteInp", dataObjInx |-> Top.arg.desc,
                        len |-> Len(Top.arg.string)], Top.arg.string),
                   "recv")
       \/ /\ Top.pc = "recv"
          /\ \E msg \in Answers :
               /\ RecvIO(msg)
               /\ IF RecvRaises(msg)
                  THEN Unwind(get_exception_by_code(msg.int_info), hist)
                  ELSE ReturnVal(write_result(msg), hist)
          /\ Same

\* Faulty variant of seek_result: the status is returned for the offset.
seek_result_status(response) == IntVal(response.int_info)

\* offset = response.get_main_message(fileLseekOut).offset; return offset
seek_result(response) == IntVal(response.offset)

\* seek_file: one seek request; the result is the offset of the response body.
seek_file ==
    /\ stack # <<>> /\ Top.fn = "seek_file"
    /\ \/ /\ Top.pc = "auth"
          /\ EnsureAuth("send")
       \/ /\ Top.pc = "send"
          /\ _send(iRODSMessage("RODS_API_REQ", "DATA_OBJ_LSEEK201_AN",
                       [pi |-> "fileLseekInp", fileInx |-> Top.arg.desc,
                        offset |-> Top.arg.offset, whence |-> Top.arg.whence], <<>>),
                   "recv")
       \/ /\ Top.pc = "recv"
          /\ \E msg \in Answers :
               /\ RecvIO(msg)
               /\ IF RecvRaises(msg)
                  THEN Unwind(get_exception_by_code(msg.int_info), hist)
                  ELSE ReturnVal(seek_result(msg), hist)
          /\ Same

\* close_file: one close request.
close_file ==
    /\ stack # <<>> /\ Top.fn = "close_file"
    /\ \/ /\ Top.pc = "auth"
          /\ EnsureAuth("send")
       \/ SendRecv(iRODSMessage("RODS_API_REQ", "DATA_OBJ_CLOSE201_AN",
                       [pi |-> "dataObjCloseInp", l1descInx |-> Top.arg.desc], <<>>))

\* unlink_data_object: one unlink request.
unlink_data_object ==
    /\ stack # <<>> /\ Top.fn = "unlink_data_object"
    /\ \/ /\ Top.pc = "auth"
          /\ EnsureAuth("send")
       \/ SendRecv(iRODSMessage("RODS_API_REQ", "DATA_OBJ_UNLINK_AN",
                       DataObjInp(Top.arg.path, 0, 0, ""), <<>>))

---------------------------------------------------------------------------
(* Metadata *)

_model_class_to_resource_type(model_cls) ==
    CASE model_cls = "DataObject" -> "d"
      [] model_cls = "Collection" -> "c"
      [] model_cls = "Resource" -> "r"
      [] model_cls = "User" -> "r"

\* The model and the conditions get_meta picks for a resource type.
meta_model(resource_type) ==
    CASE resource_type = "d" -> "DataObjectMeta"
      [] resource_type = "c" -> "CollectionMeta"
      [] resource_type = "r" -> "ResourceMeta"
      [] resource_type = "u" -> "UserMeta"

meta_conditions(resource_type, path) ==
    CASE resource_type = "d" ->
            <<[col |-> "Collection.name", val |-> dirname(path)],
              [col |-> "DataObject.name", val |-> basename(path)]>>
      [] resource_type = "c" -> <<[col |-> "Collection.name", val |-> path]>>
      [] resource_type = "r" -> <<[col |-> "Resource.name", val |-> path]>>
      [] resource_type = "u" -> <<[col |-> "User.name", val |-> path]>>

\* get_meta: query the metadata model of the target and list the rows.
get_meta ==
    /\ stack # <<>> /\ Top.fn = "get_meta"
    /\ \/ /\ Top.pc = "query"
          /\ LET resource_type == _model_class_to_resource_type(Top.arg.model_cls)
             IN  CallFn(Query_all(Query(meta_model(resource_type),
                                        meta_conditions(resource_type, Top.arg.path))),
                        "build")
       \/ /\ Top.pc = "build"
          /\ ReturnVal(iRODSMetaList(Top.ret.rows), hist)
    /\ NoIO
    /\ Same

ModAVUMetadataInp(verb, a1, a2, a3, a4, a5) ==
    [pi |-> "ModAVUMetadataInp", arg0 |-> verb, arg1 |-> a1, arg2 |-> a2,
     arg3 |-> a3, arg4 |-> a4, arg5 |-> a5]

\* add_meta: one "add" request.
add_meta ==
    /\ stack # <<>> /\ Top.fn = "add_meta"
    /\ SendRecv(iRODSMessage("RODS_API_REQ", "MOD_AVU_METADATA_AN",
            ModAVUMetadataInp("add",
                <<"-", _model_class_to_resource_type(Top.arg.model_cls)>>,
                Top.arg.path, <<Top.arg.meta.name>>, <<Top.arg.meta.value>>,
                <<Top.arg.meta.units>>), <<>>))

\* remove_meta: one "rm" request.
remove_meta ==
    /\ stack # <<>> /\ Top.fn = "remove_meta"
    /\ SendRecv(iRODSMessage("RODS_API_REQ", "MOD_AVU_METADATA_AN",
            ModAVUMetadataInp("rm",
                <<"-", _model_class_to_resource_type(Top.arg.model_cls)>>,
                Top.arg.path, <<Top.arg.meta.name>>, <<Top.arg.meta.value>>,
                <<Top.arg.meta.units>>), <<>>))

\* copy_meta: one "cp" request.
copy_meta ==
    /\ stack # <<>> /\ Top.fn = "copy_meta"
    /\ SendRecv(iRODSMessage("RODS_API_REQ", "MOD_AVU_METADATA_AN",
            ModAVUMetadataInp("cp",
                <<"-", _model_class_to_resource_type(Top.arg.src_model_cls)>>,
                <<"-", _model_class_to_resource_type(Top.arg.dest_model_cls)>>,
                Top.arg.src, Top.arg.dest, <<>>), <<>>))

---------------------------------------------------------------------------
(* The caller *)

\* The first step of each method.
Entry(fn) ==
    CASE fn \in {"add_meta", "remove_meta", "copy_meta", "disconnect"} -> "send"
      [] fn = "get_meta" -> "query"
      [] OTHER -> "auth"

Begin(fn, arg, frame) ==
    /\ stack = <<>>
    /\ stack' = <<frame>>
    /\ cur' = [fn |-> fn, arg |-> arg]
    /\ result' = [outcome |-> "running", exc |-> "None", val |-> None]
    /\ wire' = <<>>
    /\ resps' = <<>>
    /\ UNCHANGED <<socket, authenticated, pending, hist, srv, thr, scenario>>

\* iRODSSession(...): __init__ leaves socket None and authenticated False.
\* No password is stored.
NewSession ==
    /\ socket = "None"
    /\ authenticated = FALSE
    /\ stack = <<>>
    /\ pending = <<>>
    /\ wire = <<>>
    /\ resps = <<>>
    /\ result = [outcome |-> "returned", exc |-> "None", val |-> None]
    /\ cur = [fn |-> "__init__", arg |-> [none |-> TRUE]]
    /\ phase = "new"
    /\ calls = 0
    /\ hist = [n703 |-> 0, n704 |-> 0, loginFailed |-> FALSE, everSent |-> FALSE,
               connectAttempts |-> 0, privDone |-> 0]
    /\ password = <<>>

\* One caller, every public operation, a server that may answer anything.
Init ==
    /\ NewSession
    /\ srv = AnyServer
    /\ thr = OneThread
    /\ scenario = "session"

\* The same caller and operations, with a server that keeps its catalog and
\* its descriptor table.
InitServer ==
    /\ NewSession
    /\ srv = CatalogServer
    /\ thr = OneThread
    /\ scenario = "server"

\* configure(host, port, user, zone, password): store the fields and connect.
configure ==
    /\ phase = "new"
    /\ Begin("configure", [none |-> TRUE], Frame("_connect", "connect", [none |-> TRUE]))
    /\ phase' = "configured"
    /\ calls' = calls
    /\ password' \in Passwords

\* A caller calls a public method of the session.
Call ==
    /\ phase # "deleted"
    /\ calls < MaxCalls
    /\ \E c \in Menu : Begin(c.fn, c.arg, Frame(c.fn, Entry(c.fn), c.arg))
    /\ calls' = calls + 1
    /\ phase' = phase
    /\ password' = password

\* The session object is torn down.
Teardown ==
    /\ phase # "deleted"
    /\ Begin("__del__", [none |-> TRUE], Frame("__del__", "check", [none |-> TRUE]))
    /\ phase' = "deleted"
    /\ calls' = calls
    /\ password' = password

Next ==
    \/ configure
    \/ Call
    \/ Teardown
    \/ _connect
    \/ disconnect
    \/ __del__
    \/ _login
    \/ execute_query
    \/ get_collection
    \/ get_data_object
    \/ create_data_object
    \/ open_file
    \/ read_file
    \/ write_file
    \/ seek_file
    \/ close_file
    \/ unlink_data_object
    \/ get_meta
    \/ add_meta
    \/ remove_meta
    \/ copy_meta

Spec == Init /\ [][Next]_vars

\* A caller whose calls are there to trigger the login; passwords of every
\* length and several nonces.
InitLogin ==
    /\ NewSession
    /\ srv = AnyServer
    /\ thr = OneThread
    /\ scenario = "login"

\* The steps of a run that is about the login.
NextLogin ==
    \/ configure
    \/ Call
    \/ _connect
    \/ _login
    \/ open_file

SpecLogin == InitLogin /\ [][NextLogin]_vars

\* The lock of the callers is free: the running thread is not between an
\* authentication check and the end of its handshake, nor between a send and
\* its receive.
MutexFree ==
    IF stack = <<>> THEN TRUE
    ELSE Top.fn # "_login" /\ Top.pc \in {"auth", "send"}

\* The running thread is preempted and the waiting thread runs; the session
\* was configured before it was shared.  With the callers' lock this only
\* happens while the lock is free.
Switch ==
    /\ thr.parked # <<>>
    /\ phase = "configured" /\ (cur.fn = "configure" => stack = <<>>)
    /\ thr.mutex => MutexFree
    /\ stack' = thr.parked[1].stack
    /\ cur' = thr.parked[1].cur
    /\ result' = thr.parked[1].result
    /\ wire' = thr.parked[1].wire
    /\ resps' = thr.parked[1].resps
    /\ thr' = [thr EXCEPT !.tid = thr.parked[1].tid,
                          !.parked = <<[tid |-> thr.tid, stack |-> stack, cur |-> cur,
                                        result |-> result, wire |-> wire,
                                        resps |-> resps]>>]
    /\ UNCHANGED <<socket, authenticated, pending, phase, calls, hist, password,
                   srv, scenario>>

\* Two threads call one session, with or without a lock.
InitThreads ==
    /\ NewSession
    /\ srv = AnyServer
    /\ scenario = "threads"
    /\ \E mutex \in BOOLEAN : thr = TwoThreads(mutex)

\* The steps of a run with two threads.
NextThreads ==
    \/ configure
    \/ Call
    \/ Switch
    \/ _connect
    \/ _login
    \/ open_file

SpecThreads == InitThreads /\ [][NextThreads]_vars

\* The steps of a run that calls the operations on data objects only.
NextServer ==
    \/ configure
    \/ Call
    \/ Teardown
    \/ _connect
    \/ disconnect
    \/ __del__
    \/ _login
    \/ execute_query
    \/ get_collection
    \/ get_data_object
    \/ create_data_object
    \/ open_file
    \/ read_file
    \/ write_file
    \/ seek_file
    \/ close_file
    \/ unlink_data_object

SpecServer == InitServer /\ [][NextServer]_vars

---------------------------------------------------------------------------
(* Properties *)

Handshake == {"703", "704"}

\* An API request other than the two handshake envelopes.
IsRequest(e) == e.msg.type = "RODS_API_REQ" /\ e.msg.int_info \notin Handshake

Last(seq) == seq[Len(seq)]

Ended == stack = <<>> /\ result.outcome # "running"

\* C1: no API request other than the two handshake envelopes is sent while
\* the authenticated flag is false, whichever public operation is called.
C1_NoRequestBeforeAuth ==
    \A i \in 1..Len(wire) : IsRequest(wire[i]) => wire[i].authenticated

\* C2: on a connected session where no handshake failed, once two or more
\* privileged operations have run, exactly one auth request (703) and exactly
\* one auth response (704) were sent over the lifetime of the session.
C2_ExactlyOneHandshake ==
    (Ended /\ socket = "open" /\ hist.privDone >= 2 /\ ~hist.loginFailed)
        => (hist.n703 = 1 /\ hist.n704 = 1)

\* The last envelope received in this call is a failed handshake reply.
HandshakeFailedNow ==
    /\ wire # <<>> /\ Len(resps) = Len(wire)
    /\ Last(wire).msg.int_info \in Handshake
    /\ (Last(resps).int_info < 0 \/ Last(resps).error)

\* C3: when the handshake fails, the operation that triggered it fails
\* without sending its own request and the flag stays false; after a failed
\* handshake every privileged call made while the flag is false starts with
\* a new auth request instead of its own request.
C3_FailedLoginStaysOut ==
    /\ HandshakeFailedNow =>
          /\ Ended /\ result.outcome = "raised"
          /\ ~authenticated
          /\ \A i \in 1..Len(wire) : ~IsRequest(wire[i])
    /\ (hist.loginFailed /\ cur.fn \in Privileged /\ wire # <<>>
            /\ ~wire[1].authenticated)
          => wire[1].msg.int_info = "703"

\* The i-th response of this call is "no rows found", answering a query.
NoRowsToQuery(i) ==
    /\ resps[i].int_info = CAT_NO_ROWS_FOUND_CODE
    /\ resps[i].re = "702"

\* Values an operation may return after a swallowed "no rows found": the
\* empty ResultSet with the columns of the query, or the empty list built
\* from it.
EmptyResults(i) ==
    {ResultSet(empty_gen_query_out(wire[i].msg.msg.cols)), iRODSMetaList(<<>>)}

\* No operation returns a negative number as descriptor, byte count or offset.
NoNegativeResult ==
    (result.outcome = "returned" /\ result.val.tag = "int") => result.val.n >= 0

\* C4 as stated: every received envelope with a negative status ends the
\* receiving operation in a failure, with nothing of the envelope returned.
C4_NegativeStatusFails ==
    /\ \A i \in 1..Len(resps) :
          resps[i].int_info < 0 =>
             /\ i = Len(resps)
             /\ Ended /\ result.outcome = "raised" /\ result.val = None
    /\ NoNegativeResult

\* C4 amended: a received envelope with a negative status is the last one
\* the call receives.  Unless it is "no rows found" answering a query, the
\* call ends at once in the failure of that status and returns nothing.  When
\* it is, the call goes on with an empty result: what it returns is built
\* from the query's own columns, or it fails with a does-not-exist error;
\* no field of the envelope is returned either way.
C4_NegativeStatusFailsOrEmpty ==
    /\ \A i \in 1..Len(resps) :
          resps[i].int_info < 0 =>
             /\ i = Len(resps)
             /\ IF NoRowsToQuery(i)
                THEN /\ result.outcome = "returned" => result.val \in EmptyResults(i)
                     /\ result.outcome = "raised" =>
                           /\ result.exc \in {"CollectionDoesNotExist",
                                              "DataObjectDoesNotExist"}
                           /\ result.val = None
                ELSE /\ Ended
                     /\ result.outcome = "raised"
                     /\ result.exc = get_exception_by_code(resps[i].int_info)
                     /\ result.val = None
    /\ NoNegativeResult

\* C4 witness: an open request was answered with a negative status and
\* open_file ended in that failure.
C4_Witness ==
    /\ cur.fn = "open_file" /\ Ended
    /\ resps # <<>> /\ Last(resps).re = "DATA_OBJ_OPEN_AN"
    /\ Last(resps).int_info < 0
    /\ result.outcome = "raised"

\* C5: execute_query returns the empty ResultSet with the query's columns
\* when the response to the query is "no rows found", raises every other
\* remote error kind, and otherwise returns the decoded response table.
C5_QueryErrorMapping ==
    (cur.fn = "execute_query" /\ Ended /\ resps # <<>> /\ Last(resps).re = "702")
        => LET r == Last(resps)
               q == cur.arg.query
           IN  IF r.int_info = CAT_NO_ROWS_FOUND_CODE
               THEN /\ result.outcome = "returned"
                    /\ result.val = [tag |-> "ResultSet", cols |-> q.cols, rows |-> <<>>]
               ELSE IF r.int_info < 0
               THEN /\ result.outcome = "raised"
                    /\ result.exc = get_exception_by_code(r.int_info)
                    /\ result.val = None
               ELSE /\ result.outcome = "returned"
                    /\ result.val = [tag |-> "ResultSet", cols |-> r.cols, rows |-> r.rows]

\* C5 witness: a query answered "no rows found" has returned an empty ResultSet.
C5_Witness ==
    /\ cur.fn = "execute_query" /\ Ended
    /\ resps # <<>> /\ Last(resps).re = "702"
    /\ Last(resps).int_info = CAT_NO_ROWS_FOUND_CODE
    /\ result.outcome = "returned" /\ Len(result.val.rows) = 0

\* The envelopes of this call that expect a response.
Expecting == SelectSeq(wire, LAMBDA e : e.msg.type # "RODS_DISCONNECT")

\* The steps at which a frame receives.
ReceivePcs == {"recv", "challenge", "final"}

\* C6: at most one request awaits its response, and then the next step is
\* its receive; the i-th response answers the i-th request; every envelope
\* but the disconnect notice is received for exactly once; no envelope is
\* sent twice in a call and nothing is in flight once a call has failed.
C6_OneSendOneReceive ==
    /\ Len(pending) <= 1
    /\ pending # <<>> =>
          /\ stack # <<>> /\ Top.pc \in ReceivePcs
          /\ wire # <<>> /\ pending[1] = Last(wire).msg
    /\ Len(Expecting) = Len(resps) + Len(pending)
    /\ \A i \in 1..Len(resps) : resps[i].re = Expecting[i].msg.int_info
    /\ \A i, j \in 1..Len(wire) : i < j => wire[i].msg # wire[j].msg
    /\ Ended => pending = <<>>
    /\ \A i \in 1..Len(wire) :
          wire[i].msg.type = "RODS_DISCONNECT" => i = Len(wire)

\* C6 witness: a call that sent four requests and received four responses.
C6_Witness ==
    /\ Ended /\ Len(wire) >= 4 /\ Len(resps) = Len(wire)
    /\ result.outcome = "raised"

\* C7: the teardown of the session calls disconnect only while the session
\* is still connected, and never fails on a send to a closed socket.
C7_DisconnectOnce ==
    /\ (cur.fn = "__del__" /\ stack # <<>> /\ Top.fn = "disconnect") => socket = "open"
    /\ cur.fn = "__del__" => result.outcome # "raised"

\* The connection attempt of configure failed.
ConnectFailed == hist.connectAttempts >= 1 /\ socket = "None"

\* C8: when the socket cannot be opened, configure fails after one
\* connection attempt, no envelope is ever sent, the socket stays None, and
\* a later teardown neither calls disconnect nor sends anything.
C8_ConnectFailure ==
    /\ hist.connectAttempts <= 1
    /\ socket = "None" => (~hist.everSent /\ wire = <<>> /\ pending = <<>>)
    /\ (ConnectFailed /\ cur.fn = "configure") =>
          /\ Ended
          /\ result.outcome = "raised"
          /\ result.exc = "Could not connect to specified host and port"
    /\ (ConnectFailed /\ cur.fn = "__del__") =>
          /\ \A i \in 1..Len(stack) : stack[i].fn # "disconnect"
          /\ result.outcome # "raised"

\* C8 witness: a session whose connection attempt failed has been torn down.
C8_Witness ==
    /\ ConnectFailed /\ cur.fn = "__del__" /\ Ended
    /\ result.outcome = "returned" /\ phase = "deleted"

\* The handshake envelopes at the start of this call's wire.
NHandshake == Cardinality({i \in 1..Len(wire) : wire[i].msg.int_info \in Handshake})

\* The i-th request of the call after the handshake, and its response.
Own(i) == wire[NHandshake + i].msg

OwnResp(i) == resps[NHandshake + i]

NOwn == Len(wire) - NHandshake

\* C9: create_data_object sends a create request, then a close request
\* with the descriptor of the create response's status, then the query for
\* the parent collection, then the query for the data object; each is sent
\* only after the one before succeeded, and the returned object is built
\* from the rows of the two queries.
C9_CreateOrder ==
    cur.fn = "create_data_object" =>
        LET path == cur.arg.path IN
        /\ \A i \in 1..NHandshake : wire[i].msg.int_info \in Handshake
        /\ NOwn <= 4
        /\ NOwn >= 1 =>
              /\ Own(1).int_info = "DATA_OBJ_CREATE_AN"
              /\ Own(1).msg.objPath = path
        /\ NOwn >= 2 =>
              /\ OwnResp(1).int_info >= 0
              /\ Own(2).int_info = "DATA_OBJ_CLOSE201_AN"
              /\ Own(2).msg.l1descInx = OwnResp(1).int_info
        /\ NOwn >= 3 =>
              /\ OwnResp(2).int_info >= 0
              /\ Own(3).int_info = "702"
              /\ Own(3).msg.cols = "Collection"
              /\ Own(3).msg.conds = <<[col |-> "Collection.name", val |-> dirname(path)]>>
        /\ NOwn >= 4 =>
              /\ OwnResp(3).int_info >= 0 /\ Len(OwnResp(3).rows) = 1
              /\ Own(4).int_info = "702"
              /\ Own(4).msg.cols = "DataObject"
              /\ Own(4).msg.conds =
                    <<[col |-> "DataObject.name", val |-> basename(path)],
                      [col |-> "DataObject.collection_id",
                       val |-> OwnResp(3).rows[1].id]>>
        /\ result.outcome = "returned" =>
              /\ NOwn = 4 /\ Len(resps) = Len(wire)
              /\ result.val = iRODSDataObject(iRODSCollection(OwnResp(3).rows[1]),
                                              OwnResp(4).rows[1])

\* C9 witness: create_data_object has returned an object on a session that
\* logged in during the call, closing a descriptor other than the first.
C9_Witness ==
    /\ cur.fn = "create_data_object" /\ Ended /\ result.outcome = "returned"
    /\ NOwn = 4 /\ NHandshake = 2
    /\ Own(2).msg.l1descInx = 4

\* C10: get_collection queries the collection entity by exact path and
\* returns a collection if and only if the query yields exactly one row;
\* with no row ("no rows found" included) or several rows it fails with
\* CollectionDoesNotExist and returns nothing.
C10_ExactlyOneRow ==
    (cur.fn = "get_collection" /\ Ended) =>
        LET asked == resps # <<>> /\ Last(resps).re = "702"
            r == Last(resps)
            rows == IF r.int_info >= 0 THEN r.rows ELSE <<>>
            answered == asked /\ (r.int_info >= 0 \/ r.int_info = CAT_NO_ROWS_FOUND_CODE)
        IN  /\ asked =>
                /\ Last(wire).msg.msg.cols = "Collection"
                /\ Last(wire).msg.msg.conds =
                      <<[col |-> "Collection.name", val |-> cur.arg.path]>>
            /\ result.outcome = "returned" <=> (answered /\ Len(rows) = 1)
            /\ result.outcome = "returned" => result.val = iRODSCollection(rows[1])
            /\ (answered /\ Len(rows) # 1) =>
                  /\ result.outcome = "raised"
                  /\ result.exc = "CollectionDoesNotExist"
                  /\ result.val = None

\* C10 witness: the query of get_collection yielded two rows and the call
\* failed with CollectionDoesNotExist.
C10_Witness ==
    /\ cur.fn = "get_collection" /\ Ended
    /\ resps # <<>> /\ Last(resps).re = "702" /\ Last(resps).int_info >= 0
    /\ Len(Last(resps).rows) = 2
    /\ result.exc = "CollectionDoesNotExist"

---------------------------------------------------------------------------
(* Lookup of a data object *)

\* The i-th request of this call is a query on the given model.
QueryOn(i, model) == wire[i].msg.int_info = "702" /\ wire[i].msg.msg.cols = model

\* The i-th request of this call was answered with exactly one row.
OneRow(i) == i <= Len(resps) /\ resps[i].int_info >= 0 /\ Len(resps[i].rows) = 1

\* The i-th request of this call was answered with no row or several rows.
NotOneRow(i) ==
    /\ i <= Len(resps)
    /\ \/ resps[i].int_info = CAT_NO_ROWS_FOUND_CODE
       \/ resps[i].int_info >= 0 /\ Len(resps[i].rows) # 1

\* The caller looks up the data object at cur.arg.path.
Looking == cur.fn = "get_data_object"

\* C11: get_data_object resolves the parent collection (the path without its
\* last component) first and sends the object query, by last component and
\* parent id, only after that query gave exactly one row; when the parent is
\* not found the call fails with CollectionDoesNotExist and no object query
\* is sent; the call returns the object exactly when the object query gives
\* one row and fails with DataObjectDoesNotExist for no row or several; and
\* on a server that keeps its catalog, looking up a path after its unlink
\* succeeded never returns an object and fails with DataObjectDoesNotExist
\* whenever both queries were answered.
C11_ParentThenObject ==
    /\ \A i \in 1..Len(wire) :
          QueryOn(i, "DataObject") =>
             /\ i > 1 /\ QueryOn(i - 1, "Collection") /\ OneRow(i - 1)
             /\ wire[i - 1].msg.msg.conds =
                    <<[col |-> "Collection.name",
                       val |-> SubSeq(cur.arg.path, 1, Len(cur.arg.path) - 1)]>>
             /\ wire[i].msg.msg.conds =
                    <<[col |-> "DataObject.name", val |-> cur.arg.path[Len(cur.arg.path)]],
                      [col |-> "DataObject.collection_id",
                       val |-> resps[i - 1].rows[1].id]>>
    /\ Looking =>
          \A i \in 1..Len(wire) :
             /\ (QueryOn(i, "Collection") /\ NotOneRow(i)) =>
                   /\ i = Len(wire)
                   /\ Ended => (result.outcome = "raised"
                                /\ result.exc = "CollectionDoesNotExist")
             /\ (QueryOn(i, "DataObject") /\ OneRow(i) /\ Ended) =>
                   /\ result.outcome = "returned"
                   /\ result.val = iRODSDataObject(iRODSCollection(resps[i - 1].rows[1]),
                                                   resps[i].rows[1])
             /\ (QueryOn(i, "DataObject") /\ NotOneRow(i) /\ Ended) =>
                   /\ result.outcome = "raised"
                   /\ result.exc = "DataObjectDoesNotExist"
    /\ (Looking /\ Ended /\ result.outcome = "returned") =>
          /\ wire # <<>> /\ QueryOn(Len(wire), "DataObject") /\ OneRow(Len(wire))
          /\ cur.arg.path \notin srv.gone
    /\ (Looking /\ Ended /\ cur.arg.path \in srv.gone /\ Len(resps) = Len(wire)
            /\ \E i \in 1..Len(wire) : QueryOn(i, "DataObject")
            /\ \A j \in 1..Len(resps) :
                   resps[j].int_info \in {CAT_NO_ROWS_FOUND_CODE} \cup Nat) =>
          result.exc = "DataObjectDoesNotExist"

\* A lookup of an unlinked data object ended with DataObjectDoesNotExist
\* after its parent was found.
C11_Witness ==
    /\ Looking /\ Ended /\ cur.arg.path \in srv.gone
    /\ result.exc = "DataObjectDoesNotExist"
    /\ \E i \in 1..Len(wire) : QueryOn(i, "Collection") /\ OneRow(i)

---------------------------------------------------------------------------
(* Descriptors *)

DescOps == {"read_file", "write_file", "seek_file", "close_file"}

\* The request of each descriptor operation.
ApiOf(fn) ==
    CASE fn = "read_file" -> "DATA_OBJ_READ201_AN"
      [] fn = "write_file" -> "DATA_OBJ_WRITE201_AN"
      [] fn = "seek_file" -> "DATA_OBJ_LSEEK201_AN"
      [] OTHER -> "DATA_OBJ_CLOSE201_AN"

\* The call ended because nothing could be sent on the socket.
SendFailed ==
    /\ wire = <<>> /\ result.outcome = "raised"
    /\ result.exc \in {"AttributeError", "socket.error"}

\* The last request of this call is the call's own, for the caller's descriptor.
OwnDescRequest ==
    /\ wire # <<>> /\ Len(resps) = Len(wire)
    /\ Last(wire).msg.int_info = ApiOf(cur.fn)
    /\ DescOf(Last(wire).msg) = cur.arg.desc

\* The server handed out descriptor d and closed it since.
ClosedAfterOpen(d) ==
    d \in ServerDescs /\ ~srv.fds[d].open /\ srv.fds[d].path # <<>>

\* C12: the session keeps no record of descriptors.  A call of read_file,
\* write_file, seek_file or close_file that can send at all (the socket is
\* connected, the handshake did not fail) sends its request for whatever
\* descriptor it was given and ends as the response says; and a read_file on
\* a descriptor the server opened and closed again sends exactly its read
\* request, fails with the error of the server's negative status, and leaves
\* the session connected, authenticated and with no response outstanding.
C12_NoLocalDescriptorCheck ==
    /\ (cur.fn \in DescOps /\ Ended) =>
          \/ SendFailed
          \/ HandshakeFailedNow
          \/ /\ OwnDescRequest
             /\ IF Last(resps).int_info < 0
                THEN /\ result.outcome = "raised"
                     /\ result.exc = get_exception_by_code(Last(resps).int_info)
                ELSE result.outcome = "returned"
    /\ (cur.fn = "read_file" /\ Ended /\ socket = "open"
            /\ ClosedAfterOpen(cur.arg.desc)) =>
          /\ Len(wire) = 1 /\ OwnDescRequest
          /\ wire[1].msg.msg.len = cur.arg.size
          /\ resps[1].int_info < 0
          /\ result.outcome = "raised"
          /\ result.exc = get_exception_by_code(resps[1].int_info)
          /\ authenticated /\ pending = <<>>

\* A read on a descriptor that was opened and closed has failed remotely.
C12_Witness ==
    /\ cur.fn = "read_file" /\ Ended /\ socket = "open"
    /\ ClosedAfterOpen(cur.arg.desc)
    /\ result.outcome = "raised" /\ authenticated

\* The first n bytes of bs, or all of bs when it is shorter.
Truncated(bs, n) == SubSeq(bs, 1, IF Len(bs) < n THEN Len(bs) ELSE n)

\* C13: read_file(desc, n) returns at most n bytes, the raw payload of the
\* response truncated to the requested size, whatever the length of the
\* payload the response carries.
C13_ReadAtMostRequested ==
    (cur.fn = "read_file" /\ Ended /\ result.outcome = "returned") =>
        /\ result.val.tag = "bytes"
        /\ Len(result.val.bs) <= cur.arg.size
        /\ result.val.bs = Truncated(Last(resps).bs, cur.arg.size)

\* C14: write_file announces len(string) in the request body, sends the
\* string unchanged as the raw payload, and returns exactly the number in
\* the status field of the response: a short write is returned as the
\* smaller count, never as the length of the string.
C14_WriteReturnsStatus ==
    cur.fn = "write_file" =>
        /\ \A i \in 1..Len(wire) :
              wire[i].msg.int_info = "DATA_OBJ_WRITE201_AN" =>
                 /\ wire[i].msg.msg.len = Len(cur.arg.string)
                 /\ wire[i].msg.msg.dataObjInx = cur.arg.desc
                 /\ wire[i].msg.bs = cur.arg.string
        /\ (Ended /\ result.outcome = "returned") =>
              /\ OwnDescRequest
              /\ Last(resps).int_info >= 0
              /\ result.val = IntVal(Last(resps).int_info)

\* A write returned fewer bytes than the string holds.
C14_Witness ==
    /\ cur.fn = "write_file" /\ Ended /\ result.outcome = "returned"
    /\ result.val.n < Len(cur.arg.string)

\* The position lseek moves a descriptor to.
Lseek(fd, offset, whence) ==
    IF whence = 0 THEN offset
    ELSE IF whence = 1 THEN fd.pos + offset
    ELSE Len(srv.data[fd.path]) + offset

\* The step that ends a seek_file call with a returned value.
SeekReturns ==
    /\ cur.fn = "seek_file" /\ stack # <<>> /\ stack' = <<>>
    /\ result'.outcome = "returned"

\* C15: seek_file sends the caller's offset and whence unchanged and returns
\* the absolute offset the server reports, which follows lseek: the offset
\* itself from the start, the previous position plus the offset from the
\* current position, the size plus the offset from the end; the returned
\* value is the descriptor's position after the seek.
C15_SeekSemantics ==
    [][SeekReturns =>
          /\ Last(wire).msg.int_info = "DATA_OBJ_LSEEK201_AN"
          /\ Last(wire).msg.msg.fileInx = cur.arg.desc
          /\ Last(wire).msg.msg.offset = cur.arg.offset
          /\ Last(wire).msg.msg.whence = cur.arg.whence
          /\ result'.val =
                IntVal(Lseek(srv.fds[cur.arg.desc], cur.arg.offset, cur.arg.whence))
          /\ result'.val = IntVal(srv'.fds[cur.arg.desc].pos)]_vars

\* seek(d, 5, from the current position) returned 15: the position was 10.
C15_Witness ==
    /\ cur.fn = "seek_file" /\ Ended /\ result.outcome = "returned"
    /\ cur.arg.offset = 5 /\ cur.arg.whence = 1
    /\ result.val = IntVal(15)

---------------------------------------------------------------------------
(* Metadata targets *)

\* The letter that names each kind of metadata target on the wire.
Discriminator(model_cls) ==
    CASE model_cls = "DataObject" -> "d"
      [] model_cls = "Collection" -> "c"
      [] model_cls = "Resource" -> "r"
      [] model_cls = "User" -> "u"

\* The i-th request of this call changes metadata.
ModAVU(i) == wire[i].msg.int_info = "MOD_AVU_METADATA_AN"

\* C16: the four kinds of metadata target are sent as four distinct letters
\* (d, c, r, u): every metadata request names each of its targets by the
\* letter of its kind, a user by u, and get_meta for a user queries the user
\* metadata model filtered by the user's name, never the resource metadata.
C16_UserDiscriminator ==
    /\ cur.fn \in {"add_meta", "remove_meta"} =>
          \A i \in 1..Len(wire) :
             ModAVU(i) => wire[i].msg.msg.arg1 = <<"-", Discriminator(cur.arg.model_cls)>>
    /\ cur.fn = "copy_meta" =>
          \A i \in 1..Len(wire) :
             ModAVU(i) =>
                /\ wire[i].msg.msg.arg1 = <<"-", Discriminator(cur.arg.src_model_cls)>>
                /\ wire[i].msg.msg.arg2 = <<"-", Discriminator(cur.arg.dest_model_cls)>>
    /\ (cur.fn = "get_meta" /\ cur.arg.model_cls = "User") =>
          \A i \in 1..Len(wire) :
             wire[i].msg.int_info = "702" =>
                /\ wire[i].msg.msg.cols = "UserMeta"
                /\ wire[i].msg.msg.conds = <<[col |-> "User.name", val |-> cur.arg.path]>>

---------------------------------------------------------------------------
(* Login *)

\* The i-th envelope sent in this call is an auth response.
AuthResponse(i) == wire[i].msg.int_info = "704"

\* The password cut to the buffer length or filled up with zero bytes.
PaddedPassword ==
    IF Len(password) >= MAX_PASSWORD_LENGTH
    THEN SubSeq(password, 1, MAX_PASSWORD_LENGTH)
    ELSE password \o [k \in 1..(MAX_PASSWORD_LENGTH - Len(password)) |-> 0]

\* The digest of the nonce received before the i-th envelope, followed by
\* the padded password.
NonceDigest(i) == md5_digest(resps[i - 1].challenge \o PaddedPassword)

\* C20: for every nonce and every password, shorter than, as long as or
\* longer than MAX_PASSWORD_LENGTH, the response sent in the 704 envelope is
\* the 16-byte digest of the nonce followed by the password padded with zero
\* bytes or cut to exactly MAX_PASSWORD_LENGTH bytes, with every zero byte
\* of the digest replaced by 1: it has 16 bytes, none of them zero, and is
\* a function of nonce and password alone.
C20_DigestOfPaddedPassword ==
    \A i \in 1..Len(wire) :
       AuthResponse(i) =>
          /\ i > 1 /\ Len(resps) >= i - 1
          /\ Len(PaddedPassword) = MAX_PASSWORD_LENGTH
          /\ Len(wire[i].msg.msg.response) = 16
          /\ \A k \in 1..16 :
                /\ wire[i].msg.msg.response[k] # 0
                /\ wire[i].msg.msg.response[k] =
                      IF NonceDigest(i)[k] = 0 THEN 1 ELSE NonceDigest(i)[k]

\* A response was sent for a password longer than the buffer, from a digest
\* with a zero byte.
C20_Witness ==
    \E i \in 1..Len(wire) :
       /\ AuthResponse(i)
       /\ Len(password) > MAX_PASSWORD_LENGTH
       /\ \E k \in 1..16 : NonceDigest(i)[k] = 0

\* The envelopes of the handshake are sent in order: an auth request has no
\* body and is followed by nothing but an auth response; an auth response
\* carries a 16-byte digest and the username, and follows an auth request
\* whose answer, the challenge, had a non-negative status.
HandshakeInOrder ==
    \A i \in 1..Len(wire) :
       /\ wire[i].msg.int_info = "703" =>
             /\ wire[i].msg.msg = NoBody /\ wire[i].msg.bs = <<>>
             /\ i < Len(wire) => AuthResponse(i + 1)
       /\ AuthResponse(i) =>
             /\ i > 1 /\ wire[i - 1].msg.int_info = "703"
             /\ resps[i - 1].re = "703" /\ resps[i - 1].int_info >= 0
             /\ wire[i].msg.msg.pi = "authResponseInp"
             /\ wire[i].msg.msg.username = "user"
             /\ Len(wire[i].msg.msg.response) = 16

\* The flag is set by this step only as _login reads a final reply with a
\* non-negative status and no error flag, the answer to its auth response.
SetByFinalReply ==
    authenticated' # authenticated =>
        /\ authenticated'
        /\ stack # <<>> /\ Top.fn = "_login" /\ Top.pc = "final"
        /\ AuthResponse(Len(wire))
        /\ Len(resps') = Len(wire)
        /\ Last(resps').re = "704"
        /\ Last(resps').int_info >= 0
        /\ ~Last(resps').error

\* C18: the handshake sends the auth request (703, no body), receives the
\* challenge, sends the auth response (704) with digest and username, and
\* receives the final reply, in this order; the 704 envelope is never sent
\* unless a challenge with a non-negative status was received first; the
\* flag becomes true only on a final reply with a non-negative status and
\* no error flag, and no other step sets it.
C18_HandshakeOrder == [](HandshakeInOrder) /\ [][SetByFinalReply]_vars

\* A handshake was completed in this call: the flag is set after a 704.
C18_Witness ==
    /\ authenticated
    /\ \E i \in 1..Len(wire) : AuthResponse(i) /\ ~wire[i].authenticated
    /\ Len(resps) >= 2

\* C19: a step never clears the flag, and changes it only in _login, from
\* false to true; a step changes the socket only in _connect and in
\* disconnect, so an operation that fails with a remote error, a query with
\* no rows and a disconnect all leave the flag as it was, and a failed
\* operation other than the login leaves the connection open.
C19_FlagIsMonotonic ==
    [][/\ authenticated => authenticated'
       /\ authenticated' # authenticated => (stack # <<>> /\ Top.fn = "_login")
       /\ socket' # socket =>
             (stack # <<>> /\ Top.fn \in {"_connect", "disconnect"})
       /\ (stack' = <<>> /\ result'.outcome = "raised" /\ socket = "open") =>
             socket' = "open"]_vars

\* On an authenticated session an operation failed with a remote error and
\* the session is still connected and authenticated.
C19_Witness ==
    /\ authenticated /\ socket = "open" /\ Ended
    /\ result.outcome = "raised"
    /\ wire # <<>> /\ wire[1].authenticated
    /\ Len(resps) = Len(wire) /\ Last(resps).int_info < 0

---------------------------------------------------------------------------
(* Two threads on one session *)

\* Every response the running thread has read answers the request the
\* thread sent before it.
OwnResponses ==
    /\ Len(resps) <= Len(wire)
    /\ \A i \in 1..Len(resps) : resps[i].re = wire[i].msg.int_info

\* C17: when the callers hold one lock around every send and its receive
\* and around the authentication check with its handshake, no thread reads
\* the response to a request of the other, every response read answers the
\* reader's own request, and as long as no handshake fails the handshake
\* runs once for the session.  (Without the lock both can go wrong: the
\* witness.)
C17_SerializedCallersAreSafe ==
    thr.mutex =>
        /\ ~thr.crossed
        /\ OwnResponses
        /\ ~hist.loginFailed => (hist.n703 <= 1 /\ hist.n704 <= 1)

\* Without the lock: both threads found the flag false and each sent an
\* auth request of its own, and a thread has read the response to the
\* other's request.
C17_Witness ==
    /\ ~thr.mutex
    /\ thr.crossed
    /\ wire # <<>> /\ wire[1].msg.int_info = "703"
    /\ thr.parked[1].wire # <<>> /\ thr.parked[1].wire[1].msg.int_info = "703"
    /\ cur.fn = "open_file" /\ thr.parked[1].cur.fn = "open_file"
    /\ hist.n703 = 2

=============================================================================
